---------------------------- MODULE Spec2Model ----------------------------
(***************************************************************************)
(* A model of train.py: the CIFAR10DataModule (prepare_data, setup, the    *)
(* three dataloader methods), the DataLoader iteration protocol the        *)
(* trainer drives over the loaders it returns, and the LitModel steps.     *)
(*                                                                         *)
(* The library calls train.py makes (torchvision's CIFAR10, torch's        *)
(* random_split, DataLoader, F.nll_loss, torch.argmax, self.log) are       *)
(* modelled by what the libraries do with the arguments train.py passes.   *)
(* A call whose outcome the program does not control (a download, an       *)
(* allocation, the permutation randperm draws, the network's output) is a  *)
(* nondeterministic choice over a bounded set of outcomes.                 *)
(***************************************************************************)
EXTENDS Integers, Sequences, FiniteSets, TLC

VARIABLES
    environ,    \* os.environ entry PATH_DATASETS: [set, value]
    cuda,       \* torch.cuda.is_available()
    disk,       \* directories that hold a verified copy of the CIFAR10 files
    dm,         \* the CIFAR10DataModule object (its attributes)
    ret,        \* the last call made on dm or model: [op, arg, exc, value]
    calls,      \* the library calls the last call made, in order, with outcomes
    returned,   \* the data-module calls that have returned normally so far
    it,         \* the DataLoader iterator the trainer is driving
    inbatch,    \* the batch handed to the model step
    fwd,        \* the network with its current parameters: input -> log-probabilities
    logged      \* the self.log(...) entries of the last model step

vars == <<environ, cuda, disk, dm, ret, calls, returned, it, inbatch, fwd, logged>>

---------------------------------------------------------------------------
(* Bounds of the model. *)

\* randperm may return permutation 0..MaxPerm of the bounded family PermAt
MaxPerm == 1
\* the trainer iterates a loader for at most this many epochs
MaxEpochs == 2
\* length of the batches handed to the model steps
MaxBatch == 2
\* number of classes the network scores (class ids 0..MaxClass)
MaxClass == 1
\* replicas running the model steps
MaxReplica == 2

---------------------------------------------------------------------------
(* Program constants. *)

BatchCuda == 256
BatchCpu == 64
TrainLen == 45000
ValLen == 5000
CifarTrainLen == 50000
CifarTestLen == 10000

NoExc == "None"
Missing == [kind |-> "missing"]
NoValue == [kind |-> "None"]
NoDM == [kind |-> "None"]
NoIter == [kind |-> "None"]
NoBatch == [kind |-> "None"]
NaN == [kind |-> "nan"]

Min(a, b) == IF a < b THEN a ELSE b

---------------------------------------------------------------------------
(* Module-level globals, lines 22-23. *)

\* paths are sequences of path characters / components
DotPath == <<".">>
DefaultDataDir == <<".", "/">>
DataPath == <<"/", "data">>
BaseFolder == "cifar-10-batches-py"

Unset == [set |-> FALSE, value |-> <<>>]
EnvValues == {Unset, [set |-> TRUE, value |-> DataPath]}

\* os.environ.get("PATH_DATASETS", ".")
PATH_DATASETS == IF environ.set THEN environ.value ELSE DotPath

\* 256 if torch.cuda.is_available() else 64
BATCH_SIZE == IF cuda THEN BatchCuda ELSE BatchCpu

\* os.path.join(root, name), as torchvision joins root and base_folder
Join(root, name) ==
    IF root = <<>> THEN <<name>>
    ELSE IF root[Len(root)] = "/" THEN Append(root, name)
    ELSE root \o <<"/", name>>

---------------------------------------------------------------------------
(* CIFAR10DataModule.__init__, lines 160-171. *)

Transform == <<"ToTensor", "Normalize(0.5,0.5)">>
NoTransform == <<>>

CIFAR10DataModule(data_dir) ==
    [kind        |-> "CIFAR10DataModule",
     data_dir    |-> data_dir,
     transform   |-> Transform,
     dims        |-> <<3, 32, 32>>,
     num_classes |-> 10,
     cifar_train |-> Missing,
     cifar_val   |-> Missing,
     cifar_test  |-> Missing]

Call(fn, exc) == [fn |-> fn, exc |-> exc]

(* torchvision.datasets.CIFAR10(root, train, transform, download) on disk  *)
(* d: with download=True the archive is fetched and unpacked unless the    *)
(* files are already there (the fetch may fail); then the files are        *)
(* checked (RuntimeError when absent) and loaded into memory (which may    *)
(* fail).  One archive holds the train and the test files.                 *)
CIFAR10(d, root, train, transform, download) ==
    LET folder == Join(root, BaseFolder)
        ds == [kind      |-> "CIFAR10",
               root      |-> root,
               train     |-> train,
               transform |-> transform,
               len       |-> IF train THEN CifarTrainLen ELSE CifarTestLen]
        Load(d2) ==
            IF folder \notin d2
            THEN {[exc |-> "RuntimeError", disk |-> d2, ds |-> Missing]}
            ELSE {[exc |-> NoExc, disk |-> d2, ds |-> ds],
                  [exc |-> "MemoryError", disk |-> d2, ds |-> Missing]}
    IN  IF download /\ folder \notin d
        THEN {[exc |-> "URLError", disk |-> d, ds |-> Missing]}
                 \cup Load(d \cup {folder})
        ELSE Load(d)


---------------------------------------------------------------------------
(* torch.utils.data: Subset and random_split, as line 182 uses them. *)

RECURSIVE PermMult(_)
PermMult(p) == IF p = 0 THEN 1 ELSE 7 * PermMult(p - 1)

PermShift(p, n) == (12345 * p) % n

\* randperm(n)[k] for the permutation numbered p: k |-> (7^p k + 12345 p) mod n,
\* a bijection on 0..n-1 whenever 7 does not divide n; permutation 0 is the identity
PermAt(p, n, k) == (PermMult(p) * k + PermShift(p, n)) % n

\* the permutations randperm may return
Perms == 0..MaxPerm

RECURSIVE SumSeq(_)
SumSeq(s) == IF s = <<>> THEN 0 ELSE Head(s) + SumSeq(Tail(s))

\* itertools.accumulate(lengths)[i]
Accumulate(lengths, i) == SumSeq(SubSeq(lengths, 1, i))

\* Subset(dataset, indices[lo:hi]) with indices = randperm(n) numbered perm
Subset(dataset, perm, n, lo, hi) ==
    [kind |-> "Subset", dataset |-> dataset, perm |-> perm, n |-> n,
     lo |-> lo, hi |-> hi]

\* len(dataset)
DatasetLen(ds) == IF ds.kind = "Subset" THEN ds.hi - ds.lo ELSE ds.len

\* dataset[k], as the index of the sample in the underlying CIFAR10 files:
\* Subset.__getitem__ is dataset[indices[k]], CIFAR10.__getitem__ is sample k
GetItem(ds, k) ==
    IF ds.kind = "Subset" THEN PermAt(ds.perm, ds.n, ds.lo + k) ELSE k

\* a variant of random_split that draws one randperm per subset
random_split_independent(dataset, lengths) ==
    IF SumSeq(lengths) # DatasetLen(dataset)
    THEN {[exc |-> "ValueError", subsets |-> <<>>]}
    ELSE {[exc     |-> NoExc,
           subsets |-> [i \in 1..Len(lengths) |->
                          Subset(dataset, ps[i], SumSeq(lengths),
                                 Accumulate(lengths, i) - lengths[i],
                                 Accumulate(lengths, i))]]
          : ps \in [1..Len(lengths) -> Perms]}

\* random_split(dataset, lengths): ValueError unless the lengths sum to
\* len(dataset); else one randperm, cut at the accumulated lengths
random_split(dataset, lengths) ==
    IF SumSeq(lengths) # DatasetLen(dataset)
    THEN {[exc |-> "ValueError", subsets |-> <<>>]}
    ELSE {[exc     |-> NoExc,
           subsets |-> [i \in 1..Len(lengths) |->
                          Subset(dataset, p, SumSeq(lengths),
                                 Accumulate(lengths, i) - lengths[i],
                                 Accumulate(lengths, i))]] : p \in Perms}

---------------------------------------------------------------------------
(* CIFAR10DataModule.prepare_data, lines 173-176.  The result of a call is *)
(* [dm, disk, exc, calls]: the object and the disk after it, the exception *)
(* that reaches the caller (NoExc: it returned) and the library calls made.*)

\* a variant of prepare_data that tries a failed download a second time
prepare_data_retry(m, d) ==
    UNION {
        IF r1.exc = "URLError"
        THEN {[dm |-> m, disk |-> r2.disk, exc |-> r2.exc,
               calls |-> <<Call("CIFAR10(train=True)", r1.exc),
                           Call("CIFAR10(train=True)", r2.exc)>>]
              : r2 \in CIFAR10(r1.disk, m.data_dir, TRUE, NoTransform, TRUE)}
        ELSE {[dm |-> m, disk |-> r1.disk, exc |-> r1.exc,
               calls |-> <<Call("CIFAR10(train=True)", r1.exc)>>]}
        : r1 \in CIFAR10(d, m.data_dir, TRUE, NoTransform, TRUE)}

\* a variant of prepare_data that keeps the test set it constructs on self
prepare_data_keeps(m, d) ==
    UNION {
        IF r1.exc # NoExc
        THEN {[dm |-> m, disk |-> r1.disk, exc |-> r1.exc,
               calls |-> <<Call("CIFAR10(train=True)", r1.exc)>>]}
        ELSE {[dm |-> IF r2.exc = NoExc THEN [m EXCEPT !.cifar_test = r2.ds]
                      ELSE m,
               disk |-> r2.disk, exc |-> r2.exc,
               calls |-> <<Call("CIFAR10(train=True)", NoExc),
                           Call("CIFAR10(train=False)", r2.exc)>>]
              : r2 \in CIFAR10(r1.disk, m.data_dir, FALSE, NoTransform, TRUE)}
        : r1 \in CIFAR10(d, m.data_dir, TRUE, NoTransform, TRUE)}

prepare_data_results(m, d) ==
    UNION {
        IF r1.exc # NoExc
        THEN {[dm |-> m, disk |-> r1.disk, exc |-> r1.exc,
               calls |-> <<Call("CIFAR10(train=True)", r1.exc)>>]}
        ELSE {[dm |-> m, disk |-> r2.disk, exc |-> r2.exc,
               calls |-> <<Call("CIFAR10(train=True)", NoExc),
                           Call("CIFAR10(train=False)", r2.exc)>>]
              : r2 \in CIFAR10(r1.disk, m.data_dir, FALSE, NoTransform, TRUE)}
        : r1 \in CIFAR10(d, m.data_dir, TRUE, NoTransform, TRUE)}

---------------------------------------------------------------------------
(* CIFAR10DataModule.setup, lines 178-186. *)

\* the values Lightning passes as stage, and None
Stages == {"fit", "validate", "test", "predict", "None"}

\* line 180: if stage == "fit" or stage is None
RunsFit(stage) == stage = "fit" \/ stage = "None"

\* a variant of line 185 whose condition is true of every stage
RunsTest_always(stage) == TRUE

\* line 185: if stage == "test" or stage is None
RunsTest(stage) == stage = "test" \/ stage = "None"

\* line 182: [45000, 5000]
SplitLengths == <<TrainLen, ValLen>>

\* lines 181-182
setup_fit(m, d) ==
    UNION {
        IF r.exc # NoExc
        THEN {[dm |-> m, exc |-> r.exc,
               calls |-> <<Call("CIFAR10(train=True)", r.exc)>>]}
        ELSE {[dm |-> IF s.exc = NoExc
                      THEN [m EXCEPT !.cifar_train = s.subsets[1],
                                     !.cifar_val = s.subsets[2]]
                      ELSE m,
               exc |-> s.exc,
               calls |-> <<Call("CIFAR10(train=True)", NoExc),
                           Call("random_split", s.exc)>>]
              : s \in random_split(r.ds, SplitLengths)}
        : r \in CIFAR10(d, m.data_dir, TRUE, m.transform, FALSE)}

\* line 186
setup_test(m, d) ==
    {[dm |-> IF r.exc = NoExc THEN [m EXCEPT !.cifar_test = r.ds] ELSE m,
      exc |-> r.exc,
      calls |-> <<Call("CIFAR10(train=False)", r.exc)>>]
     : r \in CIFAR10(d, m.data_dir, FALSE, m.transform, FALSE)}

setup_results(m, d, stage) ==
    LET fit == IF RunsFit(stage)
               THEN setup_fit(m, d)
               ELSE {[dm |-> m, exc |-> NoExc, calls |-> <<>>]}
    IN  UNION {
            IF f.exc # NoExc \/ ~RunsTest(stage)
            THEN {f}
            ELSE {[dm |-> t.dm, exc |-> t.exc, calls |-> f.calls \o t.calls]
                  : t \in setup_test(f.dm, d)}
            : f \in fit}

---------------------------------------------------------------------------
(* The dataloader methods, lines 188-195. *)

\* a variant of the DataLoader call that passes shuffle=True
DataLoader_shuffle(dataset, batch_size) ==
    [kind |-> "DataLoader", dataset |-> dataset, batch_size |-> batch_size,
     shuffle |-> TRUE, drop_last |-> FALSE]

\* DataLoader(dataset, batch_size=...), every other argument at its default:
\* shuffle=False (a SequentialSampler), drop_last=False
DataLoader(dataset, batch_size) ==
    [kind |-> "DataLoader", dataset |-> dataset, batch_size |-> batch_size,
     shuffle |-> FALSE, drop_last |-> FALSE]

\* reading an attribute setup has not assigned raises AttributeError; the
\* DataLoader constructor returns, or fails to allocate
loader_results(dataset) ==
    IF dataset = Missing
    THEN {[exc |-> "AttributeError", value |-> NoValue, calls |-> <<>>]}
    ELSE {[exc |-> NoExc, value |-> DataLoader(dataset, BATCH_SIZE),
           calls |-> <<Call("DataLoader", NoExc)>>],
          [exc |-> "MemoryError", value |-> NoValue,
           calls |-> <<Call("DataLoader", "MemoryError")>>]}

train_dataloader_results(m) == loader_results(m.cifar_train)

\* a variant of val_dataloader with a batch size of its own
val_dataloader_double(m) ==
    IF m.cifar_val = Missing
    THEN {[exc |-> "AttributeError", value |-> NoValue, calls |-> <<>>]}
    ELSE {[exc |-> NoExc, value |-> DataLoader(m.cifar_val, 2 * BATCH_SIZE),
           calls |-> <<Call("DataLoader", NoExc)>>]}

val_dataloader_results(m) == loader_results(m.cifar_val)

\* a variant of test_dataloader that wraps the validation subset
test_dataloader_wraps_val(m) == loader_results(m.cifar_val)

test_dataloader_results(m) == loader_results(m.cifar_test)

---------------------------------------------------------------------------
(* The calls on the data module as steps of the state machine. *)

Ret(op, arg, exc, value) == [op |-> op, arg |-> arg, exc |-> exc, value |-> value]

\* what a setup(stage) that returned has completed
StagesDone(stage) ==
    IF stage = "None" THEN {"fit", "test"}
    ELSE IF stage \in {"fit", "test"} THEN {stage}
    ELSE {"other"}

prepare_data ==
    /\ dm.kind = "CIFAR10DataModule"
    /\ \E r \in prepare_data_results(dm, disk) :
        /\ dm' = r.dm
        /\ disk' = r.disk
        /\ ret' = Ret("prepare_data", "", r.exc, NoValue)
        /\ calls' = r.calls
        /\ returned' = IF r.exc = NoExc THEN returned \cup {"prepare_data"}
                       ELSE returned
    /\ UNCHANGED <<environ, cuda, it, inbatch, fwd, logged>>

setup(stage) ==
    /\ dm.kind = "CIFAR10DataModule"
    /\ \E r \in setup_results(dm, disk, stage) :
        /\ dm' = r.dm
        /\ ret' = Ret("setup", stage, r.exc, NoValue)
        /\ calls' = r.calls
        /\ returned' = IF r.exc = NoExc THEN returned \cup StagesDone(stage)
                       ELSE returned
    /\ UNCHANGED <<environ, cuda, disk, it, inbatch, fwd, logged>>

LoaderCall(op, results) ==
    /\ dm.kind = "CIFAR10DataModule"
    /\ \E r \in results :
        /\ ret' = Ret(op, "", r.exc, r.value)
        /\ calls' = r.calls
    /\ UNCHANGED <<environ, cuda, disk, dm, returned, it, inbatch, fwd, logged>>

train_dataloader == LoaderCall("train_dataloader", train_dataloader_results(dm))

val_dataloader == LoaderCall("val_dataloader", val_dataloader_results(dm))

test_dataloader == LoaderCall("test_dataloader", test_dataloader_results(dm))

---------------------------------------------------------------------------
(* Iterating a DataLoader: iter(loader) and next(iterator), as the trainer *)
(* does once per epoch with the loaders lines 188-195 return.              *)

\* the sampler's j-th index in the given epoch: a SequentialSampler yields
\* 0, 1, 2, ...; shuffle=True makes it a RandomSampler, one randperm per epoch
SamplerIndex(loader, epoch, j) ==
    IF loader.shuffle
    THEN PermAt(epoch, DatasetLen(loader.dataset), j)
    ELSE j

\* iter(loader): a fresh iterator at the start of the sampler
iter_loader ==
    /\ ret.exc = NoExc
    /\ ret.value.kind = "DataLoader"
    /\ LET epoch == IF it.kind = "iter" /\ it.loader = ret.value
                    THEN it.epoch + 1 ELSE 1
       IN  /\ epoch <= MaxEpochs
           /\ it' = [kind |-> "iter", loader |-> ret.value, epoch |-> epoch,
                     pos |-> 0, idx |-> -1, batch |-> <<>>, done |-> FALSE]
    /\ UNCHANGED <<environ, cuda, disk, dm, ret, calls, returned, inbatch, fwd, logged>>

\* next(iterator): the BatchSampler takes indices from the sampler until it
\* has batch_size of them or the sampler ends; a short last batch is yielded
\* unless drop_last; the fetcher reads dataset[i] for each index.  When
\* nothing is left StopIteration ends the epoch.
next_batch ==
    /\ it.kind = "iter"
    /\ ~it.done
    /\ LET loader == it.loader
           n == Min(loader.batch_size, DatasetLen(loader.dataset) - it.pos)
       IN  IF n = 0 \/ (n < loader.batch_size /\ loader.drop_last)
           THEN it' = [it EXCEPT !.done = TRUE, !.batch = <<>>]
           ELSE it' = [it EXCEPT
                         !.batch = [i \in 1..n |->
                                      GetItem(loader.dataset,
                                              SamplerIndex(loader, it.epoch,
                                                           it.pos + i - 1))],
                         !.pos = it.pos + n,
                         !.idx = it.idx + 1]
    /\ UNCHANGED <<environ, cuda, disk, dm, ret, calls, returned, inbatch, fwd, logged>>

---------------------------------------------------------------------------
(* LitModel, lines 103-132. *)

Inputs == {"x1", "x2"}
Classes == 0..MaxClass
LogProbs == {-1, 0}
Replicas == 1..MaxReplica

\* a batch (x, y) of n inputs and n labels
Batches ==
    UNION {{[kind |-> "batch", x |-> x, y |-> y]
            : x \in [1..n -> Inputs], y \in [1..n -> Classes]}
           : n \in 0..MaxBatch}

\* self(x), lines 110-112: row i is log_softmax(self.model(x[i])), which the
\* variable fwd gives for the network's current parameters; the call may
\* fail on the device
forward_results(x) ==
    {[exc |-> NoExc, logits |-> [i \in 1..Len(x) |-> fwd[x[i]]]]}
        \cup {[exc |-> e, logits |-> <<>>]
              : e \in {"OutOfMemoryError", "RuntimeError"}}

\* a float tensor value num/den; 0/0 is nan
Ratio(num, den) ==
    IF den = 0 THEN NaN ELSE [kind |-> "ratio", num |-> num, den |-> den]

RECURSIVE NllSum(_, _, _)
NllSum(logits, y, i) ==
    IF i > Len(y) THEN 0 ELSE NllSum(logits, y, i + 1) - logits[i][y[i]]

\* F.nll_loss(logits, y), reduction "mean": the mean of -logits[i][y[i]]
nll_loss(logits, y) == Ratio(NllSum(logits, y, 1), Len(y))

RECURSIVE ArgMaxFrom(_, _, _)
ArgMaxFrom(row, c, best) ==
    IF c > MaxClass THEN best
    ELSE ArgMaxFrom(row, c + 1, IF row[c] > row[best] THEN c ELSE best)

\* torch.argmax over the classes of one row: the first index of the maximum
argmax(row) == ArgMaxFrom(row, 1, 0)

RECURSIVE SumEq(_, _, _)
SumEq(logits, y, i) ==
    IF i > Len(y) THEN 0
    ELSE (IF argmax(logits[i]) = y[i] THEN 1 ELSE 0) + SumEq(logits, y, i + 1)

\* a variant of line 126 that divides by the configured batch size
batch_acc_by_batch_size(logits, y) == Ratio(SumEq(logits, y, 1), BATCH_SIZE)

\* line 126: torch.sum(torch.argmax(logits, dim=1) == y) / len(y)
batch_acc(logits, y) == Ratio(SumEq(logits, y, 1), Len(y))

\* self.log(name, value, prog_bar=..., sync_dist=...)
Log(name, value, prog_bar, sync_dist) ==
    [name |-> name, value |-> value, prog_bar |-> prog_bar,
     sync_dist |-> sync_dist]

\* lines 114-119
training_step_results(batch) ==
    {IF f.exc # NoExc
     THEN [exc |-> f.exc, value |-> NoValue, logged |-> <<>>,
           calls |-> <<Call("forward", f.exc)>>]
     ELSE LET loss == nll_loss(f.logits, batch.y)
          IN  [exc |-> NoExc, value |-> loss,
               logged |-> <<Log("train_loss", loss, TRUE, TRUE)>>,
               calls |-> <<Call("forward", NoExc), Call("nll_loss", NoExc),
                           Call("log", NoExc)>>]
     : f \in forward_results(batch.x)}

\* a variant of validation_step that logs val_acc with self.log's defaults
validation_step_local_acc(batch) ==
    {IF f.exc # NoExc
     THEN [exc |-> f.exc, value |-> NoValue, logged |-> <<>>,
           calls |-> <<Call("forward", f.exc)>>]
     ELSE [exc |-> NoExc, value |-> NoValue,
           logged |-> <<Log("val_loss", nll_loss(f.logits, batch.y), TRUE, TRUE),
                        Log("val_acc", batch_acc(f.logits, batch.y), FALSE, FALSE)>>,
           calls |-> <<Call("forward", NoExc), Call("nll_loss", NoExc),
                       Call("argmax", NoExc), Call("log", NoExc),
                       Call("log", NoExc)>>]
     : f \in forward_results(batch.x)}

\* lines 121-128
validation_step_results(batch) ==
    {IF f.exc # NoExc
     THEN [exc |-> f.exc, value |-> NoValue, logged |-> <<>>,
           calls |-> <<Call("forward", f.exc)>>]
     ELSE LET loss == nll_loss(f.logits, batch.y)
              acc == batch_acc(f.logits, batch.y)
          IN  [exc |-> NoExc, value |-> NoValue,
               logged |-> <<Log("val_loss", loss, TRUE, TRUE),
                            Log("val_acc", acc, TRUE, TRUE)>>,
               calls |-> <<Call("forward", NoExc), Call("nll_loss", NoExc),
                           Call("argmax", NoExc), Call("log", NoExc),
                           Call("log", NoExc)>>]
     : f \in forward_results(batch.x)}

StepCall(op, replica, results) ==
    /\ inbatch.kind = "batch"
    /\ \E r \in results :
        /\ ret' = Ret(op, replica, r.exc, r.value)
        /\ calls' = r.calls
        /\ logged' = r.logged
    /\ UNCHANGED <<environ, cuda, disk, dm, returned, it, inbatch, fwd>>

training_step(replica) ==
    StepCall("training_step", replica, training_step_results(inbatch))

validation_step(replica) ==
    StepCall("validation_step", replica, validation_step_results(inbatch))

---------------------------------------------------------------------------
(* Initial states and specifications. *)

\* the script's dm = CIFAR10DataModule() (line 205) on a machine where the
\* dataset has or has not been downloaded to ./ before; no batch has reached
\* the model
InitData ==
    /\ environ \in EnvValues
    /\ cuda \in BOOLEAN
    /\ disk \in {{}, {Join(DefaultDataDir, BaseFolder)}}
    /\ dm = CIFAR10DataModule(DefaultDataDir)
    /\ ret = Ret("__init__", "", NoExc, NoValue)
    /\ calls = <<>>
    /\ returned = {}
    /\ it = NoIter
    /\ inbatch = NoBatch
    /\ fwd = [x \in Inputs |-> [c \in Classes |-> 0]]
    /\ logged = <<>>

\* the model = LitModel() (line 206) with some parameters, handed a batch;
\* the steps read nothing of the data module, which is left out here
InitStep ==
    /\ environ = Unset
    /\ cuda = FALSE
    /\ disk = {}
    /\ dm = NoDM
    /\ ret = Ret("__init__", "", NoExc, NoValue)
    /\ calls = <<>>
    /\ returned = {}
    /\ it = NoIter
    /\ inbatch \in Batches
    /\ fwd \in [Inputs -> [Classes -> LogProbs]]
    /\ logged = <<>>

\* the data module after prepare_data() and setup(None) have returned, as the
\* loaders are iterated
InitLoad ==
    /\ environ \in EnvValues
    /\ cuda \in BOOLEAN
    /\ disk = {Join(DefaultDataDir, BaseFolder)}
    /\ \E r \in setup_results(CIFAR10DataModule(DefaultDataDir),
                              {Join(DefaultDataDir, BaseFolder)}, "None") :
        /\ r.exc = NoExc
        /\ dm = r.dm
        /\ calls = r.calls
    /\ ret = Ret("setup", "None", NoExc, NoValue)
    /\ returned = {"prepare_data", "fit", "test"}
    /\ it = NoIter
    /\ inbatch = NoBatch
    /\ fwd = [x \in Inputs |-> [c \in Classes |-> 0]]
    /\ logged = <<>>

Init == InitData \/ InitStep

NextData ==
    \/ prepare_data
    \/ \E stage \in Stages : setup(stage)
    \/ train_dataloader
    \/ val_dataloader
    \/ test_dataloader

NextStep ==
    \/ \E replica \in Replicas : training_step(replica)
    \/ \E replica \in Replicas : validation_step(replica)

NextSetup == \E stage \in Stages : setup(stage)

NextLoad ==
    \/ train_dataloader
    \/ val_dataloader
    \/ test_dataloader
    \/ iter_loader
    \/ next_batch

Next == NextData \/ NextStep

\* the data module and the model steps, each from its own initial states
Spec == Init /\ [][Next]_vars

\* setup(stage) called any number of times with any stages
SpecSetup == InitData /\ [][NextSetup]_vars

\* the loaders of a set-up data module, iterated epoch after epoch
SpecLoad == InitLoad /\ [][NextLoad]_vars

---------------------------------------------------------------------------
(* Properties. *)

IsModule == dm.kind = "CIFAR10DataModule"

\* the samples a dataset holds
Samples(ds) == {GetItem(ds, k) : k \in 0..(DatasetLen(ds) - 1)}

(* C1: once a setup("fit") or setup(None) has returned, and after any      *)
(* further setup calls, cifar_train and cifar_val partition the CIFAR10     *)
(* training set: 45000 and 5000 distinct samples, none in both, 50000 in   *)
(* all, each a sample of the training set.                                 *)
C1_SplitIsPartition ==
    /\ "fit" \in returned => dm.cifar_train # Missing
    /\ (dm.cifar_train # Missing \/ dm.cifar_val # Missing) =>
        /\ dm.cifar_train # Missing
        /\ dm.cifar_val # Missing
        /\ DatasetLen(dm.cifar_train) = TrainLen
        /\ DatasetLen(dm.cifar_val) = ValLen
        /\ DatasetLen(dm.cifar_train) + DatasetLen(dm.cifar_val) = CifarTrainLen
        /\ LET T == Samples(dm.cifar_train)
           IN  /\ Cardinality(T) = TrainLen
               /\ T \subseteq 0..(CifarTrainLen - 1)
               /\ \A k \in 0..(DatasetLen(dm.cifar_val) - 1) :
                      /\ GetItem(dm.cifar_val, k) \notin T
                      /\ GetItem(dm.cifar_val, k) \in 0..(CifarTrainLen - 1)
               /\ Cardinality(Samples(dm.cifar_val)) = ValLen

\* a setup("test") after a split that randperm did not leave in order
C1_Witness ==
    /\ ret.op = "setup"
    /\ ret.arg = "test"
    /\ ret.exc = NoExc
    /\ dm.cifar_train # Missing
    /\ dm.cifar_train.perm = 1

(* C2 as stated: every batch a loader yields holds exactly BATCH_SIZE      *)
(* samples.                                                                *)
C2_EveryBatchFull ==
    (it.kind = "iter" /\ it.idx >= 0 /\ ~it.done) =>
        Len(it.batch) = BATCH_SIZE

(* C2 amended: every loader is built with the one BATCH_SIZE (256 with     *)
(* CUDA, 64 without); every batch holds at most BATCH_SIZE samples, every  *)
(* batch but the last of an epoch exactly BATCH_SIZE, and the last one the *)
(* samples that are left, at least one.                                    *)
C2_BatchSizes ==
    LET B == IF cuda THEN BatchCuda ELSE BatchCpu
    IN  /\ (ret.exc = NoExc /\ ret.value.kind = "DataLoader") =>
               ret.value.batch_size = B
        /\ it.kind = "iter" =>
            /\ it.loader.batch_size = B
            /\ (it.idx >= 0 /\ ~it.done) =>
                /\ Len(it.batch) >= 1
                /\ Len(it.batch) <= B
                /\ it.pos < DatasetLen(it.loader.dataset) => Len(it.batch) = B
                /\ it.pos = DatasetLen(it.loader.dataset) =>
                       Len(it.batch) = DatasetLen(it.loader.dataset) - it.idx * B

\* the short last batch of an epoch has been yielded
C2_Witness ==
    /\ it.kind = "iter"
    /\ it.idx >= 0
    /\ ~it.done
    /\ it.pos = DatasetLen(it.loader.dataset)
    /\ Len(it.batch) < BATCH_SIZE

(* C3 as stated: once prepare_data() and a setup(stage) have returned,     *)
(* whatever the stage, all three subsets exist.                            *)
C3_AnyStageGivesAll ==
    ("prepare_data" \in returned /\ returned \cap {"fit", "test", "other"} # {}) =>
        /\ dm.cifar_train # Missing
        /\ dm.cifar_val # Missing
        /\ dm.cifar_test # Missing

\* what a dataloader method gives when its subset exists
LoaderOver(subset) ==
    /\ ret.exc # "AttributeError"
    /\ ret.exc = NoExc => /\ ret.value.kind = "DataLoader"
                          /\ ret.value.dataset = subset

(* C3 amended: once prepare_data() has returned and setup has returned for *)
(* stage None, or for "fit" and for "test", all three subsets exist and no *)
(* dataloader method raises AttributeError: each returns a DataLoader over *)
(* its own subset unless the DataLoader constructor itself fails.          *)
C3_FitAndTestGiveAll ==
    ("prepare_data" \in returned /\ {"fit", "test"} \subseteq returned) =>
        /\ dm.cifar_train # Missing
        /\ dm.cifar_val # Missing
        /\ dm.cifar_test # Missing
        /\ ret.op = "train_dataloader" => LoaderOver(dm.cifar_train)
        /\ ret.op = "val_dataloader" => LoaderOver(dm.cifar_val)
        /\ ret.op = "test_dataloader" => LoaderOver(dm.cifar_test)

\* test_dataloader() returned after setup("fit") and setup("test")
C3_Witness ==
    /\ "prepare_data" \in returned
    /\ {"fit", "test"} \subseteq returned
    /\ ret.op = "test_dataloader"
    /\ ret.exc = NoExc

(* C4 as stated: the data module the script builds downloads to and loads  *)
(* from the directory PATH_DATASETS names.                                 *)
C4_PathFromEnv ==
    IsModule =>
        /\ (ret.op = "prepare_data" /\ ret.exc = NoExc) =>
               Join(PATH_DATASETS, BaseFolder) \in disk
        /\ dm.cifar_test # Missing =>
               Join(dm.cifar_test.root, BaseFolder) = Join(PATH_DATASETS, BaseFolder)

(* C5: a library call that fails inside a method is the last library call  *)
(* the method makes (no retry, no recovery), and its exception is the one  *)
(* that reaches the caller.                                                *)
C5_FailurePropagates ==
    \A i \in 1..Len(calls) :
        calls[i].exc # NoExc =>
            /\ i = Len(calls)
            /\ ret.exc = calls[i].exc

\* setup(None) whose test-set load failed after the split was assigned
C5_Witness ==
    /\ ret.op = "setup"
    /\ ret.exc = "MemoryError"
    /\ Len(calls) = 3

\* batch k of a dataset cut into batches of B in the dataset's own order
ExpectedBatch(ds, B, k) ==
    [i \in 1..Min(B, DatasetLen(ds) - k * B) |-> GetItem(ds, k * B + i - 1)]

(* C6: in every epoch the k-th batch a loader yields is samples kB ..      *)
(* kB+B-1 of its subset in the subset's own order (so it is the same in    *)
(* every epoch), no sample twice, and when the epoch ends every sample of  *)
(* the subset has been yielded.                                            *)
C6_SequentialPassThrough ==
    it.kind = "iter" =>
        LET ds == it.loader.dataset
            B == it.loader.batch_size
        IN  /\ (it.idx >= 0 /\ ~it.done) =>
                /\ it.batch = ExpectedBatch(ds, B, it.idx)
                /\ Cardinality({it.batch[i] : i \in 1..Len(it.batch)}) = Len(it.batch)
            /\ it.pos = Min((it.idx + 1) * B, DatasetLen(ds))
            /\ it.done => it.pos = DatasetLen(ds)

\* a batch of the second epoch over a training subset that randperm permuted
C6_Witness ==
    /\ it.kind = "iter"
    /\ it.epoch = 2
    /\ it.idx >= 1
    /\ ~it.done
    /\ it.loader.dataset = dm.cifar_train
    /\ dm.cifar_train.perm = 1

\* the class of a row that scores highest, the first of them on a tie
Top(row) ==
    CHOOSE c \in Classes :
        \A d \in Classes : row[d] < row[c] \/ (row[d] = row[c] /\ c <= d)

\* the positions of the batch whose top class is the label
Correct(batch) ==
    {i \in 1..Len(batch.y) : Top(fwd[batch.x[i]]) = batch.y[i]}

RECURSIVE NegLogSum(_, _)
\* the sum over the batch of minus the log-probability of the label
NegLogSum(batch, V) ==
    IF V = {} THEN 0
    ELSE LET v == CHOOSE w \in V : TRUE
         IN  NegLogSum(batch, V \ {v})
               - v * Cardinality({i \in 1..Len(batch.y) :
                                    fwd[batch.x[i]][batch.y[i]] = v})

(* C7: a validation_step on a non-empty batch logs val_loss, the mean      *)
(* negative log-likelihood of that batch, and val_acc, the number of its   *)
(* samples whose top class is the label over the number of its samples,    *)
(* between 0 and 1; a training_step logs the loss of its batch.            *)
C7_PerBatchMetrics ==
    (ret.op \in {"training_step", "validation_step"} /\ ret.exc = NoExc
        /\ Len(inbatch.y) > 0) =>
        LET n == Len(inbatch.y)
            loss == [kind |-> "ratio", num |-> NegLogSum(inbatch, LogProbs),
                     den |-> n]
        IN  IF ret.op = "training_step"
            THEN /\ Len(logged) = 1
                 /\ logged[1].name = "train_loss"
                 /\ logged[1].value = loss
                 /\ ret.value = loss
            ELSE /\ Len(logged) = 2
                 /\ logged[1].name = "val_loss"
                 /\ logged[1].value = loss
                 /\ logged[2].name = "val_acc"
                 /\ logged[2].value.kind = "ratio"
                 /\ logged[2].value.num = Cardinality(Correct(inbatch))
                 /\ logged[2].value.den = n
                 /\ 0 <= logged[2].value.num
                 /\ logged[2].value.num <= logged[2].value.den

\* a validation_step on two samples of which one is classified correctly
C7_Witness ==
    /\ ret.op = "validation_step"
    /\ ret.exc = NoExc
    /\ Len(inbatch.y) = 2
    /\ Cardinality(Correct(inbatch)) = 1
    /\ Len(logged) = 2

(* C8: every entry a step logs asks for aggregation across replicas        *)
(* (sync_dist=True), and a step that returns has logged its metrics:       *)
(* train_loss in training_step, val_loss and val_acc in validation_step.   *)
C8_AlwaysSyncDist ==
    /\ \A i \in 1..Len(logged) : logged[i].sync_dist = TRUE
    /\ (ret.op = "training_step" /\ ret.exc = NoExc) =>
           {logged[i].name : i \in 1..Len(logged)} = {"train_loss"}
    /\ (ret.op = "validation_step" /\ ret.exc = NoExc) =>
           {logged[i].name : i \in 1..Len(logged)} = {"val_loss", "val_acc"}

\* a validation_step on the second replica has logged its two metrics
C8_Witness ==
    /\ ret.op = "validation_step"
    /\ ret.exc = NoExc
    /\ ret.arg = 2
    /\ Len(logged) = 2

(* C9: a setup(stage) call changes no attribute but the subsets; with      *)
(* stage "fit" it leaves cifar_test as it was, with stage "test" it leaves *)
(* cifar_train and cifar_val as they were, with a stage other than "fit",  *)
(* "test" and None it changes nothing; and a call that returns has         *)
(* assigned the train and validation subsets for "fit" and None, the test  *)
(* set for "test" and None.                                                *)
C9_SetupFrame ==
    [][(IsModule /\ ret'.op = "setup") =>
         LET stage == ret'.arg
         IN  /\ dm'.kind = dm.kind
             /\ dm'.data_dir = dm.data_dir
             /\ dm'.transform = dm.transform
             /\ dm'.dims = dm.dims
             /\ dm'.num_classes = dm.num_classes
             /\ stage = "fit" => dm'.cifar_test = dm.cifar_test
             /\ stage = "test" => /\ dm'.cifar_train = dm.cifar_train
                                  /\ dm'.cifar_val = dm.cifar_val
             /\ stage \notin {"fit", "test", "None"} => dm' = dm
             /\ (ret'.exc = NoExc /\ stage \in {"fit", "None"}) =>
                    /\ dm'.cifar_train.kind = "Subset"
                    /\ dm'.cifar_val.kind = "Subset"
                    /\ dm'.cifar_train.dataset.train
                    /\ dm'.cifar_val.dataset = dm'.cifar_train.dataset
             /\ (ret'.exc = NoExc /\ stage \in {"test", "None"}) =>
                    /\ dm'.cifar_test.kind = "CIFAR10"
                    /\ ~dm'.cifar_test.train
      ]_vars

\* setup("fit") has returned on a data module whose test set was assigned
C9_Witness ==
    /\ ret.op = "setup"
    /\ ret.arg = "fit"
    /\ ret.exc = NoExc
    /\ dm.cifar_test # Missing
    /\ dm.cifar_train # Missing

(* C10: a prepare_data() call, whether it returns or raises, leaves every  *)
(* attribute of the data module as it was; only the disk may change.       *)
C10_PrepareDataFrame ==
    [][(IsModule /\ ret'.op = "prepare_data") =>
         /\ dm' = dm
         /\ environ' = environ
         /\ cuda' = cuda
      ]_vars

\* prepare_data() has returned on a data module whose subsets were assigned
C10_Witness ==
    /\ ret.op = "prepare_data"
    /\ ret.exc = NoExc
    /\ Len(calls) = 2
    /\ dm.cifar_train # Missing

==========================================================================
